---------------------------- MODULE Spec2Model ----------------------------
(***************************************************************************)
(* Thread routing and suggestion approval of the support bot.              *)
(*                                                                         *)
(* One task per inbound private message (handle_incoming_message) and one  *)
(* task per staff button press (handle_chatgpt_response).  Every await of  *)
(* a handler is one action, so tasks interleave exactly at the awaits, as  *)
(* they do under the cooperative scheduler.  The transport, the key-value  *)
(* store and the responder are the environment: each transport call may    *)
(* succeed or fail, a forum topic may be deleted out of band, a user may   *)
(* be banned by the moderation path or may block the bot.                  *)
(***************************************************************************)
EXTENDS Integers, Sequences, FiniteSets, TLC

(***************************************************************************)
(* Bounds of the model.                                                    *)
(***************************************************************************)
MaxDeletes == 2       \* out-of-band deletions of a forum topic
MaxFaults == 1        \* transport failures of the "other" category
MaxBans == 1          \* users banned by the moderation path

Users == {"alice", "bob"}
Msgs == {1, 2}        \* message ids of the inbound private messages
Calls == {1, 2}       \* ids of the staff button presses
Null == 0             \* None: no thread id stored

(***************************************************************************)
(* Text.  A string is a sequence of one-character strings; a fixed         *)
(* presentation string without a line break is one symbol.                 *)
(***************************************************************************)
NL == "\n"
SP == " "
TAB == "\t"
CR == "\r"
FF == "\f"
\* U+000B, U+001C..U+001F, U+0085, U+00A0 and U+1680
VT == ""
FS == ""
GS == ""
RS == ""
US == ""
NEL == ""
NBSP == " "
OGHAM == " "
\* the whitespace of U+2000 and above, which a string of this module cannot
\* hold, written by code point: U+2000..U+200A, U+2028, U+2029, U+202F,
\* U+205F, U+3000
WideSpaces ==
    { "U+2000", "U+2001", "U+2002", "U+2003", "U+2004", "U+2005", "U+2006",
      "U+2007", "U+2008", "U+2009", "U+200A", "U+2028", "U+2029", "U+202F",
      "U+205F", "U+3000" }

\* the characters str.strip() removes: those for which str.isspace() is true
Whitespace ==
    {TAB, NL, VT, FF, CR, FS, GS, RS, US, SP, NEL, NBSP, OGHAM} \cup WideSpaces
NO_ANSWER == <<"N", "O", "_", "A", "N", "S", "W", "E", "R">>

ThinkingText == <<"thinking">>
SuggestionHeader == <<"suggested">>
NoMatchText == <<"no-match">>
ErrorText == <<"responder-error">>

\* what the responder may return for a message
Responses ==
    { <<"o", "k">>,
      <<"a", NL, NL, "b">>,
      NO_ANSWER,
      <<>> }

\* texts on which the qualification rule is exercised: a core, padded with
\* whitespace on either side
AnswerPads ==
    { <<>>, <<SP>>, <<NL>>, <<TAB>>, <<SP, NL>>, <<SP, SP>>,
      <<CR>>, <<CR, NL>>, <<FF>>, <<VT>>, <<US>>, <<NBSP>>, <<"U+2003">> }

AnswerCores ==
    { <<>>,
      NO_ANSWER,
      <<"n", "o", "_", "a", "n", "s", "w", "e", "r">>,
      NO_ANSWER \o <<"!">>,
      <<"x">> \o NO_ANSWER,
      <<"N", "O", SP, "A", "N", "S", "W", "E", "R">>,
      NO_ANSWER \o <<SP>> \o NO_ANSWER,
      <<"N", "O">>,
      <<"o", "k">>,
      <<"a", NL, "b">> }

AnswerInputs == {l \o c \o r : l \in AnswerPads, c \in AnswerCores, r \in AnswerPads}

RECURSIVE LStrip(_)
LStrip(s) == IF s # <<>> /\ Head(s) \in Whitespace THEN LStrip(Tail(s)) ELSE s

RECURSIVE RStrip(_)
RStrip(s) ==
    IF s # <<>> /\ s[Len(s)] \in Whitespace
    THEN RStrip(SubSeq(s, 1, Len(s) - 1))
    ELSE s

\* str.strip()
Strip(s) == RStrip(LStrip(s))

\* the comparison without the strip()
has_valid_answer_NoStrip(response) ==
    response # NO_ANSWER /\ Len(response) > 0

has_valid_answer(response) ==
    Strip(response) # NO_ANSWER /\ Len(Strip(response)) > 0

(***************************************************************************)
(* The inline keyboard of a suggestion: the approve and the reject token.  *)
(***************************************************************************)
NoKeyboard == <<>>

ChatGPTResponseCallback(action, user_id, message_id) ==
    [action |-> action, user_id |-> user_id, message_id |-> message_id]

\* a keyboard whose tokens name the user only
get_chatgpt_approval_keyboard_UserOnly(user_id, message_id) ==
    << ChatGPTResponseCallback("approve", user_id, Cardinality({user_id})),
       ChatGPTResponseCallback("reject", user_id, Cardinality({user_id})) >>

get_chatgpt_approval_keyboard(user_id, message_id) ==
    << ChatGPTResponseCallback("approve", user_id, message_id),
       ChatGPTResponseCallback("reject", user_id, message_id) >>

(***************************************************************************)
(* State.                                                                  *)
(***************************************************************************)
VARIABLES
    store,     \* the directory: user id -> stored UserData record
    topics,    \* number of forum topics created so far (their ids are 1..topics)
    live,      \* ids of the forum topics that exist in the workspace
    msg,       \* message id -> the task of handle_incoming_message for it
    group,     \* message id -> the notice that task posted into the workspace
    log,       \* message id -> the calls the task has made, in order
    deletes,   \* out-of-band topic deletions so far
    faults,    \* transport failures of the "other" category so far
    writes,    \* user id -> the message whose task wrote the record last (0: none)
    cb,        \* call id -> the task of handle_chatgpt_response for that press
    cblog,     \* call id -> the calls that task has made, in order
    inbox,     \* user id -> the texts the bot has sent into that private chat
    blocked    \* the users who have blocked the bot

vars == <<store, topics, live, msg, group, log, deletes, faults, writes,
          cb, cblog, inbox, blocked>>

staffVars == <<cb, cblog, inbox, blocked>>

msgVars == <<store, topics, live, msg, group, log, deletes, writes>>

UserData(id, thread, banned) ==
    [id |-> id, full_name |-> id, is_banned |-> banned, message_thread_id |-> thread]

NoUserData == UserData("none", Null, FALSE)

IdleTask ==
    [pc |-> "idle", user_data |-> NoUserData, text |-> FALSE, album |-> FALSE,
     message_thread_id |-> Null, retried |-> FALSE, response |-> <<>>]

NoNotice == [posted |-> FALSE, deleted |-> FALSE, thread |-> Null,
             text |-> <<>>, reply_markup |-> NoKeyboard]

NoCallback == ChatGPTResponseCallback("none", "none", 0)

IdleCall ==
    [pc |-> "idle", callback_data |-> NoCallback, message |-> 0,
     text |-> <<>>, chatgpt_response |-> <<>>]

\* The directory outlives the process: alice has written before and has a
\* forum topic, bob has not.
InitialThread(u) == IF u = "alice" THEN Cardinality({"alice"}) ELSE Null

Init ==
    /\ store = [u \in Users |-> UserData(u, InitialThread(u), FALSE)]
    /\ topics = Cardinality({u \in Users : InitialThread(u) # Null})
    /\ live = {InitialThread(u) : u \in Users} \ {Null}
    /\ msg = [m \in Msgs |-> IdleTask]
    /\ group = [m \in Msgs |-> NoNotice]
    /\ log = [m \in Msgs |-> <<>>]
    /\ deletes = 0
    /\ faults = 0
    /\ writes = [u \in Users |-> 0]
    /\ cb = [c \in Calls |-> IdleCall]
    /\ cblog = [c \in Calls |-> <<>>]
    /\ inbox = [u \in Users |-> <<>>]
    /\ blocked = {}

\* A call of a message task: the operation, the thread id it names and its
\* outcome.  The entries of the dispatch, of a write of the directory and of
\* a delivery also record the thread id the directory holds for the user as
\* the call returns.
Call(op, thread, res, stored) ==
    [op |-> op, thread |-> thread, res |-> res, stored |-> stored]

LoggedWith(m, op, thread, res, stored) ==
    log' = [log EXCEPT ![m] = Append(@, Call(op, thread, res, stored))]

Logged(m, op, thread, res) == LoggedWith(m, op, thread, res, Null)

\* the outcomes a transport call aimed at a forum topic can have
TopicOutcomes(thread) ==
    IF thread \in live
    THEN {"ok"} \cup (IF faults < MaxFaults THEN {"error"} ELSE {})
    ELSE {"not_found"}

\* the outcomes of a transport call that needs no topic
PlainOutcomes == {"ok"} \cup (IF faults < MaxFaults THEN {"error"} ELSE {})

\* the outcomes of a send into the private chat of user u
PrivateOutcomes(u) ==
    IF u \in blocked THEN {"blocked"}
    ELSE {"ok"} \cup (IF faults < MaxFaults THEN {"error"} ELSE {})

Fault(res) == faults' = IF res = "error" THEN faults + 1 ELSE faults

(***************************************************************************)
(* handle_incoming_message                                                 *)
(***************************************************************************)

\* get_or_create_forum_topic returns a stored thread id without probing it
AfterEnsure(user_data) ==
    IF user_data.message_thread_id = Null THEN "create" ELSE "forward"

\* if user_data.is_banned: return
EntryPoint_NoBanCheck(user_data) == AfterEnsure(user_data)

EntryPoint(user_data) ==
    IF user_data.is_banned THEN "done" ELSE AfterEnsure(user_data)

\* a dispatcher that starts a handler only when no other one is in progress
Dispatch_OneAtATime(m, u, text, album) ==
    /\ msg[m].pc = "idle"
    /\ \A k \in Msgs : k < m => msg[k].pc \in {"done", "failed", "relay_failed"}
    /\ msg' = [msg EXCEPT ![m] =
                  [@ EXCEPT !.user_data = store[u], !.text = text, !.album = album,
                            !.pc = EntryPoint(store[u])]]
    /\ LoggedWith(m, "dispatch", store[u].message_thread_id,
                  IF store[u].is_banned THEN "banned" ELSE "ok",
                  store[u].message_thread_id)
    /\ UNCHANGED <<store, topics, live, group, deletes, faults, writes, staffVars>>

\* The dispatcher loads the user's record and calls the handler, which returns
\* at once for a banned user.
Dispatch(m, u, text, album) ==
    /\ msg[m].pc = "idle"
    /\ \A k \in Msgs : k < m => msg[k].pc # "idle"
    /\ msg' = [msg EXCEPT ![m] =
                  [@ EXCEPT !.user_data = store[u], !.text = text, !.album = album,
                            !.pc = EntryPoint(store[u])]]
    /\ LoggedWith(m, "dispatch", store[u].message_thread_id,
                  IF store[u].is_banned THEN "banned" ELSE "ok",
                  store[u].message_thread_id)
    /\ UNCHANGED <<store, topics, live, group, deletes, faults, writes, staffVars>>

\* create_forum_topic: a new topic, or a transport failure that propagates
CreateTopic(m, res, next) ==
    /\ res \in PlainOutcomes
    /\ Fault(res)
    /\ IF res = "ok"
       THEN /\ topics' = topics + 1
            /\ live' = live \cup {topics + 1}
            /\ msg' = [msg EXCEPT ![m].user_data.message_thread_id = topics + 1,
                                  ![m].pc = next]
            /\ Logged(m, "create_forum_topic", topics + 1, res)
       ELSE /\ msg' = [msg EXCEPT ![m].pc = "relay_failed"]
            /\ Logged(m, "create_forum_topic", Null, res)
            /\ UNCHANGED <<topics, live>>
    /\ UNCHANGED <<store, group, deletes, writes, staffVars>>

\* redis.update_user(user_data.id, user_data): the whole record is written
UpdateUser_NotPersisted(m, next) ==
    /\ msg' = [msg EXCEPT ![m].pc = next]
    /\ LoggedWith(m, "update_user", msg[m].user_data.message_thread_id, "ok",
                  store[msg[m].user_data.id].message_thread_id)
    /\ UNCHANGED <<store, topics, live, group, deletes, faults, writes, staffVars>>

UpdateUser(m, next) ==
    /\ store' = [store EXCEPT ![msg[m].user_data.id] = msg[m].user_data]
    /\ msg' = [msg EXCEPT ![m].pc = next]
    /\ LoggedWith(m, "update_user", msg[m].user_data.message_thread_id, "ok",
                  store'[msg[m].user_data.id].message_thread_id)
    /\ writes' = [writes EXCEPT ![msg[m].user_data.id] = m]
    /\ UNCHANGED <<topics, live, group, deletes, faults, staffVars>>

\* get_or_create_forum_topic, thread id None: create the topic ...
EnsureCreate(m) ==
    /\ msg[m].pc = "create"
    /\ \E res \in PlainOutcomes : CreateTopic(m, res, "persist")

\* ... and persist it
EnsurePersist(m) ==
    /\ msg[m].pc = "persist"
    /\ UpdateUser(m, "forward")

\* if not album: message.forward(...) else: album.copy_to(...)
DeliveryCall_AlwaysForward(album) == "forward"

DeliveryCall(album) == IF album THEN "copy_to" ELSE "forward"

\* The task after a delivery into thread with outcome res: the thread id is
\* returned on success, "message thread not found" is handled once by the
\* recovery, and everything else, and a second one, propagates.
AfterDelivery_AlwaysRetry(task, thread, res) ==
    IF res = "ok"
    THEN [task EXCEPT !.message_thread_id = thread,
                      !.pc = IF task.text THEN "thinking" ELSE "reply"]
    ELSE IF res = "not_found"
    THEN [task EXCEPT !.retried = TRUE, !.pc = "recreate"]
    ELSE [task EXCEPT !.pc = "relay_failed"]

AfterDelivery_NoReturn(task, thread, res) ==
    IF res = "ok"
    THEN [task EXCEPT !.pc = IF task.text THEN "thinking" ELSE "reply"]
    ELSE IF res = "not_found" /\ ~task.retried
    THEN [task EXCEPT !.retried = TRUE, !.pc = "recreate"]
    ELSE [task EXCEPT !.pc = "relay_failed"]

AfterDelivery(task, thread, res) ==
    IF res = "ok"
    THEN [task EXCEPT !.message_thread_id = thread,
                      !.pc = IF task.text THEN "thinking" ELSE "reply"]
    ELSE IF res = "not_found" /\ ~task.retried
    THEN [task EXCEPT !.retried = TRUE, !.pc = "recreate"]
    ELSE [task EXCEPT !.pc = "relay_failed"]

\* copy_message_to_topic: the content goes into the thread id of the record
Forward(m) ==
    /\ msg[m].pc = "forward"
    /\ LET thread == msg[m].user_data.message_thread_id
       IN \E res \in TopicOutcomes(thread) :
            /\ Fault(res)
            /\ LoggedWith(m, DeliveryCall(msg[m].album), thread, res,
                          store[msg[m].user_data.id].message_thread_id)
            /\ msg' = [msg EXCEPT ![m] = AfterDelivery(@, thread, res)]
    /\ UNCHANGED <<store, topics, live, group, deletes, writes, staffVars>>

\* the recovery: user_data.message_thread_id = await create_forum_topic(...)
RecoverCreate(m) ==
    /\ msg[m].pc = "recreate"
    /\ \E res \in PlainOutcomes : CreateTopic(m, res, "repersist")

\* the recovery without its redis.update_user call
RecoverPersist_Skipped(m) ==
    /\ msg[m].pc = "repersist"
    /\ msg' = [msg EXCEPT ![m].pc = "forward"]
    /\ UNCHANGED <<store, topics, live, group, log, deletes, faults, writes, staffVars>>

\* the recovery: await redis.update_user(user_data.id, user_data)
RecoverPersist(m) ==
    /\ msg[m].pc = "repersist"
    /\ UpdateUser(m, "forward")

NoticeThere(m) ==
    group[m].posted /\ ~group[m].deleted /\ group[m].thread \in live

\* the outcomes of an edit or a delete of the notice of message m
NoticeOutcomes(m) ==
    IF NoticeThere(m)
    THEN {"ok"} \cup (IF faults < MaxFaults THEN {"error"} ELSE {})
    ELSE {"not_found"}

\* the "thinking" notice sent into the thread id the handler was started with
Thinking_StartThread(m) ==
    /\ msg[m].pc = "thinking"
    /\ \E res \in TopicOutcomes(log[m][1].thread) :
         /\ Fault(res)
         /\ Logged(m, "send_thinking", log[m][1].thread, res)
         /\ IF res = "ok"
            THEN /\ group' = [group EXCEPT ![m] =
                       [posted |-> TRUE, deleted |-> FALSE,
                        thread |-> log[m][1].thread,
                        text |-> ThinkingText, reply_markup |-> NoKeyboard]]
                 /\ msg' = [msg EXCEPT ![m].pc = "generate"]
            ELSE /\ msg' = [msg EXCEPT ![m].pc = "failed"]
                 /\ UNCHANGED group
    /\ UNCHANGED <<store, topics, live, deletes, writes, staffVars>>

\* bot.send_message of the "thinking" notice into the thread the content went to
Thinking(m) ==
    /\ msg[m].pc = "thinking"
    /\ \E res \in TopicOutcomes(msg[m].message_thread_id) :
         /\ Fault(res)
         /\ Logged(m, "send_thinking", msg[m].message_thread_id, res)
         /\ IF res = "ok"
            THEN /\ group' = [group EXCEPT ![m] =
                       [posted |-> TRUE, deleted |-> FALSE,
                        thread |-> msg[m].message_thread_id,
                        text |-> ThinkingText, reply_markup |-> NoKeyboard]]
                 /\ msg' = [msg EXCEPT ![m].pc = "generate"]
            ELSE /\ msg' = [msg EXCEPT ![m].pc = "failed"]
                 /\ UNCHANGED group
    /\ UNCHANGED <<store, topics, live, deletes, writes, staffVars>>

\* generate_response with no except clause around it: the error leaves the handler
Generate_Propagates(m) ==
    /\ msg[m].pc = "generate"
    /\ \/ \E r \in Responses :
            /\ msg' = [msg EXCEPT ![m] =
                  IF has_valid_answer(r)
                  THEN [@ EXCEPT !.response = r, !.pc = "edit_suggestion"]
                  ELSE [@ EXCEPT !.pc = "edit_no_match"]]
            /\ Logged(m, "generate_response", Null, "ok")
       \/ /\ msg' = [msg EXCEPT ![m].pc = "failed"]
          /\ Logged(m, "generate_response", Null, "error")
    /\ UNCHANGED <<store, topics, live, group, deletes, faults, writes, staffVars>>

\* chatgpt_service.generate_response returns a text or raises
Generate(m) ==
    /\ msg[m].pc = "generate"
    /\ \/ \E r \in Responses :
            /\ msg' = [msg EXCEPT ![m] =
                  IF has_valid_answer(r)
                  THEN [@ EXCEPT !.response = r, !.pc = "edit_suggestion"]
                  ELSE [@ EXCEPT !.pc = "edit_no_match"]]
            /\ Logged(m, "generate_response", Null, "ok")
       \/ /\ msg' = [msg EXCEPT ![m].pc = "edit_error"]
          /\ Logged(m, "generate_response", Null, "error")
    /\ UNCHANGED <<store, topics, live, group, deletes, faults, writes, staffVars>>

\* if chatgpt_service.has_valid_answer(chatgpt_response): applied to the text
\* that generate_response has just returned
Qualify(m) ==
    /\ msg[m].pc = "qualify"
    /\ msg' = [msg EXCEPT ![m].pc = IF has_valid_answer(msg[m].response)
                                    THEN "edit_suggestion" ELSE "edit_no_match"]
    /\ UNCHANGED <<store, topics, live, group, log, deletes, faults, writes, staffVars>>

SuggestionText(response) == SuggestionHeader \o <<NL, NL>> \o response

\* thinking_message.edit_text of one of the three outcomes.  Inside the try
\* block a failure of the call lands in the except branch; in the except
\* branch it propagates.
EditNotice(m, op, text, markup, next, onfail) ==
    \E res \in NoticeOutcomes(m) :
       /\ Fault(res)
       /\ Logged(m, op, group[m].thread, res)
       /\ IF res = "ok"
          THEN /\ group' = [group EXCEPT ![m].text = text, ![m].reply_markup = markup]
               /\ msg' = [msg EXCEPT ![m].pc = next]
          ELSE /\ msg' = [msg EXCEPT ![m].pc = onfail]
               /\ UNCHANGED group
       /\ UNCHANGED <<store, topics, live, deletes, writes, staffVars>>

\* asyncio.sleep(5), then thinking_message.delete()
DeleteNotice(m, next, onfail) ==
    \E res \in NoticeOutcomes(m) :
       /\ Fault(res)
       /\ Logged(m, "delete_notice", group[m].thread, res)
       /\ IF res = "ok"
          THEN /\ group' = [group EXCEPT ![m].deleted = TRUE]
               /\ msg' = [msg EXCEPT ![m].pc = next]
          ELSE /\ msg' = [msg EXCEPT ![m].pc = onfail]
               /\ UNCHANGED group
       /\ UNCHANGED <<store, topics, live, deletes, writes, staffVars>>

EditSuggestion(m) ==
    /\ msg[m].pc = "edit_suggestion"
    /\ EditNotice(m, "edit_suggestion", SuggestionText(msg[m].response),
                  get_chatgpt_approval_keyboard(msg[m].user_data.id, m),
                  "reply", "edit_error")

EditNoMatch(m) ==
    /\ msg[m].pc = "edit_no_match"
    /\ EditNotice(m, "edit_no_match", NoMatchText, NoKeyboard,
                  "delete_no_match", "edit_error")

\* the no-match notice left in place: no sleep, no delete
DeleteNoMatch_NoRetraction(m) ==
    /\ msg[m].pc = "delete_no_match"
    /\ msg' = [msg EXCEPT ![m].pc = "reply"]
    /\ UNCHANGED <<store, topics, live, group, log, deletes, faults, writes, staffVars>>

DeleteNoMatch(m) ==
    /\ msg[m].pc = "delete_no_match"
    /\ DeleteNotice(m, "reply", "edit_error")

EditError(m) ==
    /\ msg[m].pc = "edit_error"
    /\ EditNotice(m, "edit_error", ErrorText, NoKeyboard, "delete_error", "failed")

DeleteError(m) ==
    /\ msg[m].pc = "delete_error"
    /\ DeleteNotice(m, "reply", "failed")

\* message.reply(message_sent), asyncio.sleep(5), msg.delete()
Reply(m) ==
    /\ msg[m].pc = "reply"
    /\ \E res \in PrivateOutcomes(msg[m].user_data.id) :
         /\ Fault(res)
         /\ Logged(m, "reply", Null, res)
         /\ msg' = [msg EXCEPT ![m].pc = IF res = "ok" THEN "delete_reply" ELSE "failed"]
    /\ UNCHANGED <<store, topics, live, group, deletes, writes, staffVars>>

DeleteReply(m) ==
    /\ msg[m].pc = "delete_reply"
    /\ \E res \in PlainOutcomes :
         /\ Fault(res)
         /\ Logged(m, "delete_reply", Null, res)
         /\ msg' = [msg EXCEPT ![m].pc = IF res = "ok" THEN "done" ELSE "failed"]
    /\ UNCHANGED <<store, topics, live, group, deletes, writes, staffVars>>

(***************************************************************************)
(* handle_edited_message                                                   *)
(***************************************************************************)

\* The dispatcher calls the handler for an edited message of user u; the
\* handler takes no user record and makes no ban check.
DispatchEdited(m, u) ==
    /\ msg[m].pc = "idle"
    /\ \A k \in Msgs : k < m => msg[k].pc # "idle"
    /\ msg' = [msg EXCEPT ![m] =
                  [@ EXCEPT !.user_data = [NoUserData EXCEPT !.id = u, !.full_name = u],
                            !.pc = "edited_reply"]]
    /\ UNCHANGED <<store, topics, live, group, log, deletes, faults, writes, staffVars>>

\* msg = await message.reply(message_edited)
EditedReply(m) ==
    /\ msg[m].pc = "edited_reply"
    /\ \E res \in PrivateOutcomes(msg[m].user_data.id) :
         /\ Fault(res)
         /\ Logged(m, "edited_reply", Null, res)
         /\ msg' = [msg EXCEPT ![m].pc = IF res = "ok" THEN "edited_delete" ELSE "failed"]
    /\ UNCHANGED <<store, topics, live, group, deletes, writes, staffVars>>

\* await asyncio.sleep(5); await msg.delete()
EditedDelete(m) ==
    /\ msg[m].pc = "edited_delete"
    /\ \E res \in PlainOutcomes :
         /\ Fault(res)
         /\ Logged(m, "edited_delete", Null, res)
         /\ msg' = [msg EXCEPT ![m].pc = IF res = "ok" THEN "done" ELSE "failed"]
    /\ UNCHANGED <<store, topics, live, group, deletes, writes, staffVars>>

(***************************************************************************)
(* The environment.                                                        *)
(***************************************************************************)

\* a forum topic is deleted in the workspace, out of band
DeleteTopic(thread) ==
    /\ thread \in live
    /\ deletes < MaxDeletes
    /\ live' = live \ {thread}
    /\ deletes' = deletes + 1
    /\ UNCHANGED <<store, topics, msg, group, log, faults, writes, staffVars>>

\* the moderation path sets the banned flag of a stored record
Ban(u) ==
    /\ ~store[u].is_banned
    /\ Cardinality({v \in Users : store[v].is_banned}) < MaxBans
    /\ store' = [store EXCEPT ![u].is_banned = TRUE]
    /\ UNCHANGED <<topics, live, msg, group, log, deletes, faults, writes, staffVars>>

\* a user blocks the bot in the private chat
BlockBot(u) ==
    /\ u \notin blocked
    /\ blocked' = blocked \cup {u}
    /\ UNCHANGED <<msgVars, faults, cb, cblog, inbox>>

(***************************************************************************)
(* handle_chatgpt_response                                                 *)
(***************************************************************************)
SentMarker == <<"sent">>
BlockedMarker == <<"blocked">>

\* index of the first "\n\n" of text at or after i, 0 when there is none
RECURSIVE FirstBreak(_, _)
FirstBreak(text, i) ==
    IF i + 1 > Len(text) THEN 0
    ELSE IF text[i] = NL /\ text[i + 1] = NL THEN i
    ELSE FirstBreak(text, i + 1)

\* index of the last "\n\n" of text at or before i, 0 when there is none
RECURSIVE LastBreak(_, _)
LastBreak(text, i) ==
    IF i < 1 THEN 0
    ELSE IF text[i] = NL /\ text[i + 1] = NL THEN i
    ELSE LastBreak(text, i - 1)

\* text.rsplit("\n\n", 1)[1] in place of split
ExtractResponse_LastBreak(text) ==
    LET i == LastBreak(text, Len(text) - 1)
    IN IF i = 0 THEN text ELSE SubSeq(text, i + 2, Len(text))

\* text.split("\n\n", 1)[1] if "\n\n" in text else text
ExtractResponse(text) ==
    LET i == FirstBreak(text, 1)
    IN IF i = 0 THEN text ELSE SubSeq(text, i + 2, Len(text))

SentText(response) == SentMarker \o <<NL, NL>> \o response
BlockedText(response) == BlockedMarker \o <<NL, NL>> \o response

StaffCall(op, to, text, res) == [op |-> op, to |-> to, text |-> text, res |-> res]

StaffLogged(c, op, to, text, res) ==
    cblog' = [cblog EXCEPT ![c] = Append(@, StaffCall(op, to, text, res))]

\* the notice of message m shows buttons: the suggestion is Pending
Pending(m) == NoticeThere(m) /\ group[m].reply_markup # NoKeyboard

\* A staff member presses button i of the notice of message m.  The update
\* carries the token of the button and the notice as it is at that moment;
\* the handler starts and, for approve, parses the text.
Press(c, m, i) ==
    /\ cb[c].pc = "idle"
    /\ \A k \in Calls : k < c => cb[k].pc # "idle"
    /\ Pending(m)
    /\ i \in 1..Len(group[m].reply_markup)
    /\ LET data == group[m].reply_markup[i]
       IN cb' = [cb EXCEPT ![c] =
                   [pc |-> IF data.action = "approve" THEN "send"
                           ELSE IF data.action = "reject" THEN "delete"
                           ELSE "done",
                    callback_data |-> data,
                    message |-> m,
                    text |-> group[m].text,
                    chatgpt_response |-> IF data.action = "approve"
                                         THEN ExtractResponse(group[m].text)
                                         ELSE <<>>]]
    /\ UNCHANGED <<msgVars, faults, cblog, inbox, blocked>>

\* the except branch taken for a failure inside the try block
ExceptBranch_NoBlockedCase(res) == "answer_error"

ExceptBranch(res) == IF res = "blocked" THEN "answer_blocked" ELSE "answer_error"

\* call.bot.send_message(chat_id=callback_data.user_id, text=chatgpt_response)
ApproveSend(c) ==
    /\ cb[c].pc = "send"
    /\ LET u == cb[c].callback_data.user_id
           text == cb[c].chatgpt_response
       IN \E res \in PrivateOutcomes(u) :
            /\ Fault(res)
            /\ StaffLogged(c, "send_message", u, text, res)
            /\ IF res = "ok"
               THEN /\ inbox' = [inbox EXCEPT ![u] = Append(@, text)]
                    /\ cb' = [cb EXCEPT ![c].pc = "edit_sent"]
               ELSE /\ cb' = [cb EXCEPT ![c].pc = ExceptBranch(res)]
                    /\ UNCHANGED inbox
    /\ UNCHANGED <<store, topics, live, msg, group, log, deletes, writes, blocked>>

\* the outcomes of call.message.edit_text: a notice that is gone cannot be
\* edited, and the transport refuses an edit that changes nothing
StaffEditOutcomes(m, text, markup) ==
    IF ~NoticeThere(m) THEN {"not_found"}
    ELSE IF group[m].text = text /\ group[m].reply_markup = markup
    THEN {"not_modified"}
    ELSE {"ok"} \cup (IF faults < MaxFaults THEN {"error"} ELSE {})

\* call.message.edit_text(text) that leaves the buttons in place
StaffEdit_KeepsButtons(c, op, text, next, onfail) ==
    LET m == cb[c].message
    IN \E res \in StaffEditOutcomes(m, text, NoKeyboard) :
         /\ Fault(res)
         /\ StaffLogged(c, op, m, text, res)
         /\ IF res = "ok"
            THEN /\ group' = [group EXCEPT ![m].text = text]
                 /\ cb' = [cb EXCEPT ![c].pc = next]
            ELSE /\ cb' = [cb EXCEPT ![c].pc = onfail]
                 /\ UNCHANGED group
         /\ UNCHANGED <<store, topics, live, msg, log, deletes, writes, inbox, blocked>>

\* call.message.edit_text(text, reply_markup=None)
StaffEdit(c, op, text, next, onfail) ==
    LET m == cb[c].message
    IN \E res \in StaffEditOutcomes(m, text, NoKeyboard) :
         /\ Fault(res)
         /\ StaffLogged(c, op, m, text, res)
         /\ IF res = "ok"
            THEN /\ group' = [group EXCEPT ![m].text = text,
                                           ![m].reply_markup = NoKeyboard]
                 /\ cb' = [cb EXCEPT ![c].pc = next]
            ELSE /\ cb' = [cb EXCEPT ![c].pc = onfail]
                 /\ UNCHANGED group
         /\ UNCHANGED <<store, topics, live, msg, log, deletes, writes, inbox, blocked>>

\* call.answer(text, show_alert)
StaffAnswer(c, op, next, onfail) ==
    \E res \in PlainOutcomes :
       /\ Fault(res)
       /\ StaffLogged(c, op, cb[c].message, <<>>, res)
       /\ cb' = [cb EXCEPT ![c].pc = IF res = "ok" THEN next ELSE onfail]
       /\ UNCHANGED <<msgVars, inbox, blocked>>

\* try: edit the notice to the "sent" marker and the text, buttons removed
ApproveEdit(c) ==
    /\ cb[c].pc = "edit_sent"
    /\ StaffEdit(c, "edit_sent", SentText(cb[c].chatgpt_response),
                 "answer_sent", "answer_error")

\* try: acknowledge the press
ApproveAnswer(c) ==
    /\ cb[c].pc = "answer_sent"
    /\ StaffAnswer(c, "answer_sent", "done", "answer_error")

\* except, "blocked" in ex.message: alert the staff member ...
BlockedAnswer(c) ==
    /\ cb[c].pc = "answer_blocked"
    /\ StaffAnswer(c, "alert_blocked", "edit_blocked", "failed")

\* ... and edit the notice to the "blocked" marker, buttons removed
BlockedEdit(c) ==
    /\ cb[c].pc = "edit_blocked"
    /\ StaffEdit(c, "edit_blocked", BlockedText(cb[c].chatgpt_response),
                 "done", "failed")

\* except, any other transport error: alert the staff member
ErrorAnswer(c) ==
    /\ cb[c].pc = "answer_error"
    /\ StaffAnswer(c, "alert_error", "done", "failed")

\* reject without the call.message.delete()
RejectDelete_NoDelete(c) ==
    /\ cb[c].pc = "delete"
    /\ cb' = [cb EXCEPT ![c].pc = "answer_reject"]
    /\ UNCHANGED <<msgVars, faults, cblog, inbox, blocked>>

\* reject: call.message.delete() ...
RejectDelete(c) ==
    /\ cb[c].pc = "delete"
    /\ LET m == cb[c].message
       IN \E res \in NoticeOutcomes(m) :
            /\ Fault(res)
            /\ StaffLogged(c, "delete", m, <<>>, res)
            /\ IF res = "ok"
               THEN /\ group' = [group EXCEPT ![m].deleted = TRUE]
                    /\ cb' = [cb EXCEPT ![c].pc = "answer_reject"]
               ELSE /\ cb' = [cb EXCEPT ![c].pc = "failed"]
                    /\ UNCHANGED group
    /\ UNCHANGED <<store, topics, live, msg, log, deletes, writes, inbox, blocked>>

\* ... and acknowledge the press
RejectAnswer(c) ==
    /\ cb[c].pc = "answer_reject"
    /\ StaffAnswer(c, "answer_reject", "done", "failed")

(***************************************************************************)
(* Specifications.                                                         *)
(***************************************************************************)
MessageKinds ==
    { <<TRUE, FALSE>>,     \* a text message
      <<FALSE, FALSE>>,    \* a single message without text (a photo, a sticker)
      <<FALSE, TRUE>> }    \* an album

Finished == {"done", "failed", "relay_failed"}

NoneInFlight == \A m \in Msgs : msg[m].pc \in Finished \cup {"idle"}

RecoverStep(m) ==
    \/ RecoverCreate(m)
    \/ RecoverPersist(m)

MessageStep(m) ==
    \/ EnsureCreate(m)
    \/ EnsurePersist(m)
    \/ Forward(m)
    \/ Thinking(m)
    \/ Generate(m)
    \/ EditSuggestion(m)
    \/ EditNoMatch(m)
    \/ DeleteNoMatch(m)
    \/ EditError(m)
    \/ DeleteError(m)
    \/ Reply(m)
    \/ DeleteReply(m)

StaffStep(c) ==
    \/ ApproveSend(c)
    \/ ApproveEdit(c)
    \/ ApproveAnswer(c)
    \/ BlockedAnswer(c)
    \/ BlockedEdit(c)
    \/ ErrorAnswer(c)
    \/ RejectDelete(c)
    \/ RejectAnswer(c)

\* Messages handled one call at a time; the workspace and the moderation
\* path act at any await of the call.
Next ==
    \/ \E m \in Msgs, u \in Users, k \in MessageKinds :
           NoneInFlight /\ Dispatch(m, u, k[1], k[2])
    \/ \E m \in Msgs : MessageStep(m)
    \/ \E m \in Msgs : RecoverStep(m)
    \/ \E thread \in 1..topics : DeleteTopic(thread)
    \/ \E u \in Users : Ban(u)

Spec == Init /\ [][Next]_vars

\* Two message tasks in flight at once, interleaved at every await; a topic
\* may have been deleted before the first message arrives.
NoneDispatched == \A m \in Msgs : msg[m].pc = "idle"

NextRace ==
    \/ \E m \in Msgs, u \in Users, k \in MessageKinds : Dispatch(m, u, k[1], k[2])
    \/ \E m \in Msgs : MessageStep(m)
    \/ \E m \in Msgs : RecoverStep(m)
    \/ \E thread \in 1..topics : NoneDispatched /\ DeleteTopic(thread)

SpecRace == Init /\ [][NextRace]_vars

\* the relay of a message task: get_or_create_forum_topic, the delivery and
\* the recovery
RelayStep(m) ==
    \/ EnsureCreate(m)
    \/ EnsurePersist(m)
    \/ Forward(m)
    \/ RecoverStep(m)

\* the relays of message tasks running concurrently, up to the return of
\* copy_message_to_topic, while staff may delete a topic at any moment
NextFirst ==
    \/ \E m \in Msgs, u \in Users, k \in MessageKinds : Dispatch(m, u, k[1], k[2])
    \/ \E m \in Msgs : RelayStep(m)
    \/ \E thread \in 1..topics : DeleteTopic(thread)

SpecFirst == Init /\ [][NextFirst]_vars

\* Messages and edited messages, handled one update at a time.
EditedStep(m) ==
    \/ EditedReply(m)
    \/ EditedDelete(m)

NextNotice ==
    \/ \E m \in Msgs, u \in Users, k \in MessageKinds :
           NoneInFlight /\ Dispatch(m, u, k[1], k[2])
    \/ \E m \in Msgs, u \in Users : NoneInFlight /\ DispatchEdited(m, u)
    \/ \E m \in Msgs : MessageStep(m)
    \/ \E m \in Msgs : EditedStep(m)
    \/ \E u \in Users : BlockBot(u)

SpecNotice == Init /\ [][NextNotice]_vars

\* The handler of one text message of alice from the moment the responder
\* has returned a text: the qualification rule, then the rest of the handler.
ReturnedTask(r) ==
    [IdleTask EXCEPT !.pc = "qualify",
                     !.user_data = UserData("alice", InitialThread("alice"), FALSE),
                     !.text = TRUE,
                     !.message_thread_id = InitialThread("alice"),
                     !.response = r]

ReturnedLog ==
    << Call("dispatch", InitialThread("alice"), "ok", InitialThread("alice")),
       Call("forward", InitialThread("alice"), "ok", InitialThread("alice")),
       Call("send_thinking", InitialThread("alice"), "ok", Null),
       Call("generate_response", Null, "ok", Null) >>

ThinkingNotice ==
    [posted |-> TRUE, deleted |-> FALSE, thread |-> InitialThread("alice"),
     text |-> ThinkingText, reply_markup |-> NoKeyboard]

\* the state with message 1 of alice in the hands of the given task
InitTask(task, notice, calls) ==
    /\ store = [u \in Users |-> UserData(u, InitialThread(u), FALSE)]
    /\ topics = Cardinality({u \in Users : InitialThread(u) # Null})
    /\ live = {InitialThread(u) : u \in Users} \ {Null}
    /\ msg = [m \in Msgs |-> IF m = 1 THEN task ELSE IdleTask]
    /\ group = [m \in Msgs |-> IF m = 1 THEN notice ELSE NoNotice]
    /\ log = [m \in Msgs |-> IF m = 1 THEN calls ELSE <<>>]
    /\ deletes = 0
    /\ faults = 0
    /\ writes = [u \in Users |-> 0]
    /\ cb = [c \in Calls |-> IdleCall]
    /\ cblog = [c \in Calls |-> <<>>]
    /\ inbox = [u \in Users |-> <<>>]
    /\ blocked = {}

InitReturned(inputs) ==
    \E r \in inputs : InitTask(ReturnedTask(r), ThinkingNotice, ReturnedLog)

OutcomeStep(m) ==
    \/ Qualify(m)
    \/ EditSuggestion(m)
    \/ EditNoMatch(m)
    \/ DeleteNoMatch(m)
    \/ EditError(m)
    \/ DeleteError(m)
    \/ Reply(m)
    \/ DeleteReply(m)

InitAnswer == InitReturned(AnswerInputs)

NextAnswer == \E m \in Msgs : OutcomeStep(m)

SpecAnswer == InitAnswer /\ [][NextAnswer]_vars

\* The texts on which the extraction is exercised: every text of at most
\* MaxText characters over a letter and the line break.
MaxText == 5

ExtractInputs ==
    UNION {[1..n -> {"a", NL}] : n \in 1..MaxText}

\* a notice with buttons whose text has no blank line (none is rendered by
\* this program: the handler is given the text by the update)
PlainTexts == {t \in ExtractInputs : Len(t) <= 3 /\ FirstBreak(t, 1) = 0}

PlainNotice(t) ==
    [posted |-> TRUE, deleted |-> FALSE, thread |-> InitialThread("alice"),
     text |-> t, reply_markup |-> get_chatgpt_approval_keyboard("alice", 1)]

InitExtract ==
    \/ InitReturned(ExtractInputs)
    \/ \E t \in PlainTexts :
          InitTask([ReturnedTask(t) EXCEPT !.pc = "done"], PlainNotice(t), ReturnedLog)

\* The rendering of the suggestion and one staff press on it.
NextExtract ==
    \/ \E m \in Msgs : OutcomeStep(m)
    \/ \E m \in Msgs, i \in 1..2 : Press(1, m, i)
    \/ StaffStep(1)
    \/ \E u \in Users : BlockBot(u)

SpecExtract == InitExtract /\ [][NextExtract]_vars

\* Every transport call succeeds and no topic is deleted; the responder
\* returns or raises; a task that can take its next step eventually takes
\* it (the awaited call returns, the sleep ends).  A staff member presses
\* a button or does not.
NoFault == faults' = faults

\* the steps of a staff task none of whose calls fails
StaffStepOk(c) ==
    \/ ApproveSend(c)
    \/ ApproveEdit(c)
    \/ ApproveAnswer(c)
    \/ BlockedAnswer(c)
    \/ BlockedEdit(c)
    \/ RejectDelete(c)
    \/ RejectAnswer(c)

NextLive ==
    \/ \E m \in Msgs, u \in Users, k \in MessageKinds :
           NoneInFlight /\ Dispatch(m, u, k[1], k[2])
    \/ \E m \in Msgs : MessageStep(m) /\ NoFault
    \/ \E m \in Msgs, i \in 1..2 : Press(1, m, i)
    \/ StaffStepOk(1) /\ NoFault
    \/ \E u \in Users : BlockBot(u)

SpecLive ==
    /\ Init
    /\ [][NextLive]_vars
    /\ \A m \in Msgs : WF_vars(MessageStep(m) /\ NoFault)

\* The responder never returns for message 1: its task takes every step but
\* the return of generate_response.  Message 2 and the staff presses are
\* handled meanwhile; no transport call fails, and a task that can continue
\* eventually does.
StepButResponder(m) ==
    \/ EnsureCreate(m)
    \/ EnsurePersist(m)
    \/ Forward(m)
    \/ Thinking(m)
    \/ EditSuggestion(m)
    \/ EditNoMatch(m)
    \/ DeleteNoMatch(m)
    \/ EditError(m)
    \/ DeleteError(m)
    \/ Reply(m)
    \/ DeleteReply(m)

HangingStep(m) == m = 1 /\ StepButResponder(m) /\ NoFault
FreeStep(m) == m # 1 /\ MessageStep(m) /\ NoFault
StaffStepHang(c) == StaffStepOk(c) /\ NoFault

NextHang ==
    \/ \E m \in Msgs, u \in Users, k \in MessageKinds : Dispatch(m, u, k[1], k[2])
    \/ \E m \in Msgs : HangingStep(m)
    \/ \E m \in Msgs : FreeStep(m)
    \/ \E m \in Msgs, i \in 1..2 : Press(1, m, i)
    \/ StaffStepHang(1)
    \/ \E u \in Users : BlockBot(u)

SpecHang ==
    /\ Init
    /\ [][NextHang]_vars
    /\ \A m \in Msgs : WF_vars(HangingStep(m)) /\ WF_vars(FreeStep(m))
    /\ WF_vars(StaffStepHang(1))

\* One message and the staff button presses on its suggestion, interleaved
\* at every await; the user may block the bot at any moment.
NextStaff ==
    \/ \E u \in Users, k \in MessageKinds : Dispatch(1, u, k[1], k[2])
    \/ \E m \in Msgs : MessageStep(m)
    \/ \E m \in Msgs : RecoverStep(m)
    \/ \E c \in Calls, m \in Msgs, i \in 1..2 : Press(c, m, i)
    \/ \E c \in Calls : StaffStep(c)
    \/ \E u \in Users : BlockBot(u)
    \/ \E thread \in 1..topics : DeleteTopic(thread)

SpecStaff == Init /\ [][NextStaff]_vars

(***************************************************************************)
(* Reading the call log of a message task.                                 *)
(***************************************************************************)
IsDelivery(e) == e.op \in {"forward", "copy_to"}
IsCreate(e) == e.op = "create_forum_topic"
IsWrite(e) == e.op = "update_user"
IsRelayCall(e) == IsDelivery(e) \/ IsCreate(e) \/ IsWrite(e)
IsLaterCall(e) == ~IsRelayCall(e) /\ e.op # "dispatch"

Deliveries(m) == SelectSeq(log[m], IsDelivery)
Creations(m) == SelectSeq(log[m], IsCreate)
DirWrites(m) == SelectSeq(log[m], IsWrite)
RelayLog(m) == SelectSeq(log[m], IsRelayCall)
LaterLog(m) == SelectSeq(log[m], IsLaterCall)

Dispatched(m) == Len(log[m]) > 0
Seen(m) == log[m][1]                   \* what the dispatch read from the directory
Handled(m) == Dispatched(m) /\ Seen(m).res = "ok"     \* not banned at the start
AllOk(calls) == \A i \in DOMAIN calls : calls[i].res = "ok"
Relayed(m) == \E i \in DOMAIN log[m] : IsDelivery(log[m][i]) /\ log[m][i].res = "ok"
DeliveryOp(m) == IF msg[m].album THEN "copy_to" ELSE "forward"
CreatedBy(m) == {Creations(m)[i].thread : i \in DOMAIN Creations(m)} \ {Null}

(***************************************************************************)
(* C1, as claimed: a relay call that completes for a non-banned user whose *)
(* stored thread id is null has created exactly one thread, has delivered  *)
(* the content into it, and the directory held the id of that thread as    *)
(* the delivery returned.                                                  *)
(***************************************************************************)
PersistedBy(k) == {DirWrites(k)[i].thread : i \in DOMAIN DirWrites(k)}

FirstContact(m) == Handled(m) /\ Seen(m).thread = Null /\ Relayed(m)

OkCreations(m) == {i \in DOMAIN Creations(m) : Creations(m)[i].res = "ok"}

C1_FirstContactCreatesOneThread ==
    \A m \in Msgs :
       FirstContact(m) =>
          \E t \in 1..topics :
             /\ Cardinality(OkCreations(m)) = 1
             /\ CreatedBy(m) = {t}
             /\ RelayLog(m)[Len(RelayLog(m))] = Call(DeliveryOp(m), t, "ok", t)

(***************************************************************************)
(* C1, amended: such a call creates one thread, persists its id and        *)
(* delivers into it; or, when that thread is deleted before the delivery,  *)
(* it creates and persists a second one and delivers into that.  No other  *)
(* call created the thread delivered into, the task's record holds its id, *)
(* and as the delivery returned the directory held that id, or else an id  *)
(* that another message task of the same user has persisted.               *)
(***************************************************************************)
\* the relay calls of a first contact that delivers into thread t while the
\* directory holds stored
DirectRelay(m, t, stored) ==
    << Call("create_forum_topic", t, "ok", Null),
       Call("update_user", t, "ok", t),
       Call(DeliveryOp(m), t, "ok", stored) >>

\* the same when the thread created first, gone, is replaced by the recovery
RecoveredRelay(m, gone, t, stored) ==
    << Call("create_forum_topic", gone, "ok", Null),
       Call("update_user", gone, "ok", gone),
       Call(DeliveryOp(m), gone, "not_found", RelayLog(m)[3].stored),
       Call("create_forum_topic", t, "ok", Null),
       Call("update_user", t, "ok", t),
       Call(DeliveryOp(m), t, "ok", stored) >>

PersistedByOther(m, stored) ==
    \E k \in Msgs \ {m} :
       /\ msg[k].user_data.id = msg[m].user_data.id
       /\ stored \in PersistedBy(k)

C1_FirstContactUnlessRacedOrDeleted ==
    \A m \in Msgs :
       FirstContact(m) =>
          \E t \in 1..topics, stored \in 1..topics :
             /\ \/ RelayLog(m) = DirectRelay(m, t, stored)
                \/ \E gone \in (1..topics) \ (live \cup {t}) :
                      RelayLog(m) = RecoveredRelay(m, gone, t, stored)
             /\ \A k \in Msgs \ {m} : t \notin CreatedBy(k)
             /\ msg[m].user_data.message_thread_id = t
             /\ msg[m].message_thread_id = t
             /\ stored = t \/ PersistedByOther(m, stored)

\* two first contacts of one user: one delivers while the directory holds
\* the other's id, and one had its first thread deleted under it
C1_Witness ==
    \E m, k \in Msgs :
       /\ m # k /\ FirstContact(m) /\ FirstContact(k)
       /\ msg[m].user_data.id = msg[k].user_data.id
       /\ Len(RelayLog(m)) = 6
       /\ RelayLog(k)[Len(RelayLog(k))].stored # RelayLog(k)[Len(RelayLog(k))].thread

(***************************************************************************)
(* C2: a relay call for a non-banned user whose stored thread id names a   *)
(* thread that is live when the content is delivered makes no              *)
(* thread-creation call and exactly one delivery call, into the stored     *)
(* thread, a forward for a single message and a copy for an album, and     *)
(* writes nothing to the directory, which still holds the same id as the   *)
(* delivery returns.                                                       *)
(***************************************************************************)
LiveStored(m) ==
    /\ Handled(m) /\ Seen(m).thread # Null
    /\ Deliveries(m) # <<>> /\ Deliveries(m)[1].res # "not_found"

C2_LiveThreadOneDelivery ==
    \A m \in Msgs :
       LiveStored(m) =>
          /\ Creations(m) = <<>>
          /\ DirWrites(m) = <<>>
          /\ Len(Deliveries(m)) = 1
          /\ Deliveries(m)[1].op = DeliveryOp(m)
          /\ Deliveries(m)[1].thread = Seen(m).thread
          /\ Deliveries(m)[1].stored = Seen(m).thread

C2_Witness ==
    \E m \in Msgs : LiveStored(m) /\ Relayed(m) /\ msg[m].album /\ msg[m].pc = "done"

(***************************************************************************)
(* C3: a relay call whose first delivery into the stored thread fails with *)
(* "message thread not found", and whose other transport calls succeed,    *)
(* creates one thread, persists its id and delivers the content into it;   *)
(* a later relay call for the same user that finds that thread live        *)
(* delivers into it and creates no thread.                                 *)
(***************************************************************************)
StaleRecovered(m) ==
    /\ Handled(m) /\ Seen(m).thread # Null
    /\ Deliveries(m) # <<>> /\ Deliveries(m)[1].res = "not_found"
    /\ Relayed(m)

LaterCall(m, k) ==
    /\ k > m /\ Handled(k) /\ msg[k].user_data.id = msg[m].user_data.id
    /\ Deliveries(k) # <<>> /\ Deliveries(k)[1].res # "not_found"

C3_StaleThreadRecoveredOnce ==
    \A m \in Msgs :
       StaleRecovered(m) =>
          \E t \in 1..topics :
             /\ t # Seen(m).thread
             /\ RelayLog(m) =
                  << Call(DeliveryOp(m), Seen(m).thread, "not_found", Seen(m).thread),
                     Call("create_forum_topic", t, "ok", Null),
                     Call("update_user", t, "ok", t),
                     Call(DeliveryOp(m), t, "ok", t) >>
             /\ \A k \in Msgs \ {m} : t \notin CreatedBy(k)
             /\ \A k \in Msgs :
                  LaterCall(m, k) =>
                     /\ Seen(k).thread = t
                     /\ Deliveries(k)[1].thread = t
                     /\ Creations(k) = <<>>

C3_Witness ==
    \E m, k \in Msgs : StaleRecovered(m) /\ LaterCall(m, k) /\ Relayed(k)

(***************************************************************************)
(* C4: a relay call makes at most two deliveries and at most one recovery. *)
(* A second "message thread not found", or a failure of another category   *)
(* of a delivery or of a thread creation, propagates out of the handler:   *)
(* no thinking notice is posted, the responder is not invoked and nothing  *)
(* is replied to the user.                                                 *)
(***************************************************************************)
Recoveries(m) ==
    {i \in DOMAIN RelayLog(m) :
        IsCreate(RelayLog(m)[i]) /\ \E j \in 1..(i - 1) : IsDelivery(RelayLog(m)[j])}

RelayFailure(m) ==
    \/ \E i \in DOMAIN RelayLog(m) : RelayLog(m)[i].res = "error"
    \/ Len(Deliveries(m)) >= 2 /\ Deliveries(m)[2].res = "not_found"

C4_OneRecoveryThenPropagate ==
    \A m \in Msgs :
       /\ Len(Deliveries(m)) <= 2
       /\ Cardinality(Recoveries(m)) <= 1
       /\ RelayFailure(m) =>
             /\ msg[m].pc = "relay_failed"
             /\ LaterLog(m) = <<>>
             /\ group[m] = NoNotice
             /\ log[m][Len(log[m])].res # "ok"

C4_Witness ==
    \E m \in Msgs :
       /\ msg[m].text
       /\ Len(Deliveries(m)) = 2 /\ Deliveries(m)[2].res = "not_found"

(***************************************************************************)
(* C7: a message of a user whose record is banned when the handler starts  *)
(* has no effect: the task ends at once having made no call, so no thread  *)
(* is created, nothing is written or delivered, no notice is posted, the   *)
(* responder is not invoked and nothing is replied.                        *)
(***************************************************************************)
BannedAtStart(m) == Dispatched(m) /\ Seen(m).res = "banned"

C7_BannedUserNoEffect ==
    \A m \in Msgs :
       BannedAtStart(m) =>
          /\ msg[m].pc = "done"
          /\ Len(log[m]) = 1
          /\ group[m] = NoNotice
          /\ writes[msg[m].user_data.id] # m
          /\ \A c \in Calls : cb[c].message # m

C7_Witness ==
    \E m \in Msgs : BannedAtStart(m) /\ msg[m].text /\ msg[m].user_data.is_banned

(***************************************************************************)
(* C5, as claimed: whenever a relay call has delivered the content, it has *)
(* delivered it into exactly one thread, and the directory held the id of  *)
(* that thread as the delivery returned.                                   *)
(***************************************************************************)
OkDeliveries(m) ==
    {i \in DOMAIN Deliveries(m) : Deliveries(m)[i].res = "ok"}

C5_DirectoryMatchesDelivery ==
    \A m \in Msgs :
       Relayed(m) =>
          /\ Cardinality(OkDeliveries(m)) = 1
          /\ \A i \in OkDeliveries(m) :
                Deliveries(m)[i].stored = Deliveries(m)[i].thread

(***************************************************************************)
(* C5, amended: whenever a relay call has delivered the content, it has    *)
(* delivered it into exactly one thread, the one whose id the task's own   *)
(* record holds; as the delivery returned the directory held that id, or   *)
(* else an id that another message task of the same user has persisted.   *)
(***************************************************************************)

C5_DirectoryMatchesUnlessRaced ==
    \A m \in Msgs :
       Relayed(m) =>
          /\ Cardinality(OkDeliveries(m)) = 1
          /\ \A i \in OkDeliveries(m) :
                LET d == Deliveries(m)[i]
                IN /\ d.thread = msg[m].user_data.message_thread_id
                   /\ d.thread = msg[m].message_thread_id
                   /\ \/ d.stored = d.thread
                      \/ \E k \in Msgs \ {m} :
                            /\ msg[k].user_data.id = msg[m].user_data.id
                            /\ d.stored \in PersistedBy(k)

C5_Witness ==
    \E m, k \in Msgs :
       /\ m # k /\ Relayed(m) /\ Relayed(k)
       /\ msg[m].user_data.id = msg[k].user_data.id
       /\ \A i \in OkDeliveries(m) : Deliveries(m)[i].stored = Deliveries(m)[i].thread
       /\ \A i \in OkDeliveries(k) : Deliveries(k)[i].stored # Deliveries(k)[i].thread

(***************************************************************************)
(* C6: two message tasks of one user that both read a null thread id both  *)
(* create a thread.  Once both have persisted, two distinct threads exist  *)
(* for the user, the directory holds the id written last, and the other    *)
(* thread is referenced by no record of the directory.                     *)
(***************************************************************************)
BothCreated(m, k) ==
    /\ m # k
    /\ Handled(m) /\ Handled(k)
    /\ msg[m].user_data.id = msg[k].user_data.id
    /\ Seen(m).thread = Null /\ Seen(k).thread = Null
    /\ DirWrites(m) # <<>> /\ DirWrites(k) # <<>>

C6_RaceLeavesOrphanThread ==
    \A m, k \in Msgs :
       BothCreated(m, k) =>
          LET u == msg[m].user_data.id
          IN /\ Cardinality(CreatedBy(m)) = 1
             /\ Cardinality(CreatedBy(k)) = 1
             /\ CreatedBy(m) \cap CreatedBy(k) = {}
             /\ \E last \in {m, k} :
                   /\ writes[u] = last
                   /\ CreatedBy(last) = {store[u].message_thread_id}
                   /\ \A other \in {m, k} \ {last} :
                         \A v \in Users :
                            store[v].message_thread_id \notin CreatedBy(other)

C6_Witness ==
    \E m, k \in Msgs :
       /\ BothCreated(m, k)
       /\ msg[m].pc = "done" /\ msg[k].pc = "done"
       /\ Relayed(m) /\ Relayed(k)
       /\ writes[msg[m].user_data.id] = m
       /\ m < k

(***************************************************************************)
(* Reading the call log of a staff task.                                   *)
(***************************************************************************)
Approve(c) == cb[c].callback_data.action = "approve"
CallFinished(c) == cb[c].pc \in {"done", "failed"}
Suggested(c) == msg[cb[c].message].response       \* the responder's text
Asker(c) == msg[cb[c].message].user_data.id       \* the user who wrote the message
OnlyCallOn(c) ==
    \A k \in Calls \ {c} : cb[k].message = cb[c].message => cblog[k] = <<>>
IsPrefix(s, t) == Len(s) <= Len(t) /\ s = SubSeq(t, 1, Len(s))
TopicsOfMessages ==
    ({InitialThread(u) : u \in Users} \ {Null}) \cup UNION {CreatedBy(m) : m \in Msgs}

(***************************************************************************)
(* C8: an approve press whose calls all succeed sends the text the         *)
(* responder gave, parsed back out of the notice, into the private chat of *)
(* the user named by the token, who is the user who wrote the message;     *)
(* then edits the notice to the "sent" marker followed by that text, the   *)
(* buttons removed; then acknowledges the press.  The handler creates no   *)
(* topic and writes nothing to the directory.                              *)
(***************************************************************************)
ApproveCalls(c) ==
    << StaffCall("send_message", Asker(c), Suggested(c), "ok"),
       StaffCall("edit_sent", cb[c].message, SentText(Suggested(c)), "ok"),
       StaffCall("answer_sent", cb[c].message, <<>>, "ok") >>

C8_ApproveSendsAndMarksSent ==
    \A c \in Calls :
       (Approve(c) /\ AllOk(cblog[c])) =>
          /\ cb[c].callback_data.user_id = Asker(c)
          /\ cb[c].callback_data.message_id = cb[c].message
          /\ cb[c].pc # "failed"
          /\ IsPrefix(cblog[c], ApproveCalls(c))
          /\ cb[c].pc = "done" => cblog[c] = ApproveCalls(c)
          /\ (Len(cblog[c]) >= 1 /\ OnlyCallOn(c)) =>
                inbox[Asker(c)] = <<Suggested(c)>>
          /\ (Len(cblog[c]) >= 2 /\ OnlyCallOn(c) /\ NoticeThere(cb[c].message)) =>
                /\ group[cb[c].message].text = SentText(Suggested(c))
                /\ group[cb[c].message].reply_markup = NoKeyboard
          /\ 1..topics = TopicsOfMessages
          /\ writes[Asker(c)] \in Msgs =>
                store[Asker(c)].message_thread_id
                   = msg[writes[Asker(c)]].user_data.message_thread_id

C8_Witness ==
    \E c \in Calls :
       /\ Approve(c) /\ cb[c].pc = "done" /\ cblog[c] = ApproveCalls(c)
       /\ OnlyCallOn(c) /\ NoticeThere(cb[c].message)
       /\ FirstBreak(Suggested(c), 1) > 0

(***************************************************************************)
(* C9: an approve press whose send fails because the user blocked the bot  *)
(* delivers nothing; the failure does not leave the handler: the staff     *)
(* member is alerted and the notice is edited to the "blocked" marker      *)
(* followed by the text, the buttons removed, and when these two calls     *)
(* succeed the handler ends normally.                                      *)
(***************************************************************************)
BlockedCalls(c) ==
    << StaffCall("send_message", Asker(c), Suggested(c), "blocked"),
       StaffCall("alert_blocked", cb[c].message, <<>>, "ok"),
       StaffCall("edit_blocked", cb[c].message, BlockedText(Suggested(c)), "ok") >>

SendBlocked(c) ==
    Approve(c) /\ cblog[c] # <<>> /\ cblog[c][1].res = "blocked"

C9_BlockedRecipientMarked ==
    \A c \in Calls :
       (SendBlocked(c) /\ AllOk(Tail(cblog[c]))) =>
          /\ IsPrefix(cblog[c], BlockedCalls(c))
          /\ cb[c].pc # "failed"
          /\ cb[c].pc = "done" => cblog[c] = BlockedCalls(c)
          /\ OnlyCallOn(c) => inbox[Asker(c)] = <<>>
          /\ (Len(cblog[c]) = 3 /\ OnlyCallOn(c) /\ NoticeThere(cb[c].message)) =>
                /\ group[cb[c].message].text = BlockedText(Suggested(c))
                /\ group[cb[c].message].reply_markup = NoKeyboard

C9_Witness ==
    \E c \in Calls :
       /\ SendBlocked(c) /\ cb[c].pc = "done" /\ cblog[c] = BlockedCalls(c)
       /\ OnlyCallOn(c) /\ NoticeThere(cb[c].message)

(***************************************************************************)
(* C10, as claimed: once the handler of an approve press has finished, the *)
(* notice is not Pending any more.                                         *)
(***************************************************************************)
C10_ApproveAlwaysTerminal ==
    \A c \in Calls :
       (Approve(c) /\ CallFinished(c)) => ~Pending(cb[c].message)

(***************************************************************************)
(* C10, amended: once the handler of an approve press has finished, the    *)
(* notice is not Pending any more unless a call of the handler failed with *)
(* a transport error other than "blocked": then the handler alerts the     *)
(* staff member or the error propagates, and the notice keeps its buttons. *)
(* A notice that is still there and not Pending shows the "sent" or the    *)
(* "blocked" marker followed by the text.                                  *)
(***************************************************************************)
HadTransportError(c) == \E i \in DOMAIN cblog[c] : cblog[c][i].res = "error"

C10_ApproveTerminalUnlessError ==
    \A c \in Calls :
       (Approve(c) /\ CallFinished(c)) =>
          /\ Pending(cb[c].message) => HadTransportError(c)
          /\ (NoticeThere(cb[c].message) /\ ~Pending(cb[c].message)) =>
                group[cb[c].message].text
                   \in {SentText(Suggested(c)), BlockedText(Suggested(c))}

C10_Witness ==
    \E c \in Calls :
       /\ Approve(c) /\ cb[c].pc = "done" /\ Pending(cb[c].message)
       /\ cblog[c][1] = StaffCall("send_message", Asker(c), Suggested(c), "error")

(***************************************************************************)
(* C11: a reject press whose calls succeed deletes the notice, then        *)
(* acknowledges the press; it sends nothing into the private chat of the   *)
(* user, and the notice is gone (Rejected), never Pending again.           *)
(***************************************************************************)
Reject(c) == cb[c].callback_data.action = "reject"

RejectCalls(c) ==
    << StaffCall("delete", cb[c].message, <<>>, "ok"),
       StaffCall("answer_reject", cb[c].message, <<>>, "ok") >>

C11_RejectDeletesSuggestion ==
    \A c \in Calls :
       (Reject(c) /\ AllOk(cblog[c])) =>
          /\ cb[c].pc # "failed"
          /\ IsPrefix(cblog[c], RejectCalls(c))
          /\ cb[c].pc = "done" => cblog[c] = RejectCalls(c)
          /\ cb[c].chatgpt_response = <<>>
          /\ Len(cblog[c]) >= 1 =>
                /\ group[cb[c].message].deleted
                /\ ~Pending(cb[c].message)
          /\ OnlyCallOn(c) => inbox[Asker(c)] = <<>>

C11_Witness ==
    \E c \in Calls :
       /\ Reject(c) /\ cb[c].pc = "done" /\ cblog[c] = RejectCalls(c)
       /\ OnlyCallOn(c) /\ group[cb[c].message].deleted

(***************************************************************************)
(* Reading the outcome a message task gave to its placeholder.             *)
(***************************************************************************)
OutcomeOps == {"edit_suggestion", "edit_no_match", "edit_error"}

\* the outcome edits that took effect on the placeholder of message m
AppliedOutcomes(m) ==
    {log[m][i].op : i \in {j \in DOMAIN log[m] :
                              log[m][j].op \in OutcomeOps /\ log[m][j].res = "ok"}}

HasCall(m, op) == \E i \in DOMAIN log[m] : log[m][i].op = op
HasOkCall(m, op) == \E i \in DOMAIN log[m] : log[m][i].op = op /\ log[m][i].res = "ok"
ResponderEnded(m) == HasCall(m, "generate_response")
ResponderRaised(m) ==
    \E i \in DOMAIN log[m] : log[m][i].op = "generate_response" /\ log[m][i].res = "error"

(***************************************************************************)
(* C12: the placeholder of a message receives the edit of at most one of   *)
(* the three outcomes, and, once the handler has gone on to the reply, of  *)
(* exactly one; the suggestion edit leaves the placeholder with the        *)
(* approve and the reject button.                                          *)
(***************************************************************************)
C12_ExactlyOneOutcome ==
    \A m \in Msgs :
       /\ Cardinality(AppliedOutcomes(m)) <= 1
       /\ AppliedOutcomes(m) # {} => ResponderEnded(m)
       /\ (ResponderEnded(m) /\ HasCall(m, "reply")) =>
             Cardinality(AppliedOutcomes(m)) = 1
       /\ Pending(m) =>
             /\ AppliedOutcomes(m) = {"edit_suggestion"}
             /\ group[m].text = SuggestionText(msg[m].response)
             /\ {group[m].reply_markup[i].action : i \in DOMAIN group[m].reply_markup}
                   = {"approve", "reject"}

(***************************************************************************)
(* C13: when the responder raises and the transport calls that follow      *)
(* succeed, the handler does not fail: the content has been delivered and  *)
(* stays, the placeholder is edited to the error notice and then deleted,  *)
(* and the user gets the confirmation reply, which is then deleted.        *)
(***************************************************************************)
ResponderAt(m) == CHOOSE i \in DOMAIN log[m] : log[m][i].op = "generate_response"
SinceResponder(m) == SubSeq(log[m], ResponderAt(m) + 1, Len(log[m]))

ErrorPath(m) ==
    << Call("edit_error", msg[m].message_thread_id, "ok", Null),
       Call("delete_notice", msg[m].message_thread_id, "ok", Null),
       Call("reply", Null, "ok", Null),
       Call("delete_reply", Null, "ok", Null) >>

C13_ResponderErrorNotFatal ==
    \A m \in Msgs :
       (ResponderRaised(m) /\ AllOk(SinceResponder(m))) =>
          /\ msg[m].pc \notin {"failed", "relay_failed"}
          /\ IsPrefix(SinceResponder(m), ErrorPath(m))
          /\ msg[m].pc = "done" <=> SinceResponder(m) = ErrorPath(m)
          /\ Relayed(m)
          /\ Len(SinceResponder(m)) >= 1 =>
                (NoticeThere(m) => group[m].text = ErrorText /\ ~Pending(m))
          /\ Len(SinceResponder(m)) >= 2 => group[m].deleted

C13_Witness ==
    \E m \in Msgs :
       /\ ResponderRaised(m) /\ msg[m].pc = "done"
       /\ SinceResponder(m) = ErrorPath(m) /\ group[m].deleted

(***************************************************************************)
(* C14: an ephemeral notice (the reply to an edited message, the           *)
(* confirmation reply) is deleted only after it was sent; a failed send    *)
(* leaves the handler as a failure, a failed delete does not.              *)
(***************************************************************************)
NoticeSends == {"reply", "edited_reply"}
NoticeDeletes == {"delete_reply", "edited_delete"}
LastCall(m) == log[m][Len(log[m])]

C14_RetractionFailureSwallowed ==
    \A m \in Msgs :
       log[m] # <<>> =>
          /\ (LastCall(m).op \in NoticeSends /\ LastCall(m).res # "ok") =>
                msg[m].pc = "failed"
          /\ LastCall(m).op \in NoticeDeletes =>
                /\ log[m][Len(log[m]) - 1].op \in NoticeSends
                /\ log[m][Len(log[m]) - 1].res = "ok"
                /\ msg[m].pc = "done"

(***************************************************************************)
(* C15: the responder's text qualifies exactly when, with the whitespace   *)
(* at both ends removed, it is neither empty nor the sentinel NO_ANSWER;   *)
(* the comparison is case-sensitive and on the whole trimmed text.         *)
(***************************************************************************)
AllBlank(s) == \A i \in DOMAIN s : s[i] \in Whitespace

\* s without its leading and trailing whitespace, stated by position
Trimmed(s) ==
    IF AllBlank(s) THEN <<>>
    ELSE LET lo == CHOOSE i \in DOMAIN s :
                      s[i] \notin Whitespace /\ \A j \in 1..(i - 1) : s[j] \in Whitespace
             hi == CHOOSE i \in DOMAIN s :
                      s[i] \notin Whitespace /\ \A j \in (i + 1)..Len(s) : s[j] \in Whitespace
         IN SubSeq(s, lo, hi)

Judged(m) == msg[m].pc \notin {"idle", "qualify"}
JudgedValid(m) == msg[m].pc = "edit_suggestion" \/ HasCall(m, "edit_suggestion")

C15_ValidAnswerRule ==
    \A m \in Msgs :
       Judged(m) =>
          /\ JudgedValid(m) <=>
                (Trimmed(msg[m].response) # <<>> /\ Trimmed(msg[m].response) # NO_ANSWER)
          /\ msg[m].response \in {<<>>, <<SP>>, <<SP, NL>> \o <<TAB>>, NO_ANSWER,
                                  <<SP>> \o NO_ANSWER \o <<NL>>,
                                  <<CR>>, <<FF>>, <<VT>>, <<NBSP>>, <<"U+2003">>,
                                  <<CR>> \o NO_ANSWER,
                                  NO_ANSWER \o <<CR, NL>>} => ~JudgedValid(m)
          /\ msg[m].response \in {<<"n", "o", "_", "a", "n", "s", "w", "e", "r">>,
                                  NO_ANSWER \o <<"!">>, <<"x">> \o NO_ANSWER,
                                  NO_ANSWER \o <<SP>> \o NO_ANSWER} => JudgedValid(m)

C15_Witness ==
    /\ msg[1].response = <<SP, SP>> \o NO_ANSWER \o <<NL>>
    /\ Judged(1) /\ ~JudgedValid(1) /\ HasOkCall(1, "edit_no_match")

(***************************************************************************)
(* C16: the text the approve handler parses out of a notice rendered as    *)
(* header, blank line, s is s itself, also when s contains blank lines; a  *)
(* notice text without a blank line is taken whole; and the notice marked  *)
(* as sent parses to s again.                                              *)
(***************************************************************************)
RenderedFrom(c) == cb[c].text = SuggestionText(Suggested(c))

C16_ExtractionRoundTrip ==
    /\ FirstBreak(SuggestionHeader, 1) = 0
    /\ \A c \in Calls :
          (Approve(c) /\ cb[c].pc # "idle") =>
             /\ RenderedFrom(c) => cb[c].chatgpt_response = Suggested(c)
             /\ FirstBreak(cb[c].text, 1) = 0 => cb[c].chatgpt_response = cb[c].text
    /\ \A c \in Calls :
          (Approve(c) /\ RenderedFrom(c) /\ NoticeThere(cb[c].message)
             /\ group[cb[c].message].text = SentText(cb[c].chatgpt_response)) =>
             ExtractResponse(group[cb[c].message].text) = Suggested(c)

C16_Witness ==
    \E c \in Calls :
       /\ Approve(c) /\ RenderedFrom(c) /\ cb[c].pc = "done"
       /\ Suggested(c) = <<NL, "a", NL, NL, "a">>
       /\ NoticeThere(cb[c].message)
       /\ group[cb[c].message].text = SentText(Suggested(c))

(***************************************************************************)
(* C17: the calls of a message task come in this order: the delivery of    *)
(* the content, the thinking placeholder into the thread the successful    *)
(* delivery used, the responder, the edits of the placeholder, the reply   *)
(* to the user, its deletion.  A task that ends normally for a text        *)
(* message has made every one of these steps; a task for content without   *)
(* text posts no placeholder and never calls the responder.                *)
(***************************************************************************)
At(m, ops) == {i \in DOMAIN log[m] : log[m][i].op \in ops}
OkAt(m, ops) == {i \in At(m, ops) : log[m][i].res = "ok"}
Before(I, J) == \A i \in I, j \in J : i < j

RelayOps == {"dispatch", "create_forum_topic", "update_user", "forward", "copy_to"}
NoticeOps == OutcomeOps \cup {"delete_notice"}

C17_StepsInOrder ==
    \A m \in Msgs :
       /\ Before(At(m, RelayOps), At(m, {"send_thinking"}))
       /\ Before(At(m, {"send_thinking"}), At(m, {"generate_response"}))
       /\ Before(At(m, {"generate_response"}), At(m, NoticeOps))
       /\ Before(At(m, NoticeOps), At(m, {"reply"}))
       /\ Before(At(m, {"reply"}), At(m, {"delete_reply"}))
       /\ \A op \in {"send_thinking", "generate_response", "reply", "delete_reply"} :
             Cardinality(At(m, {op})) <= 1
       /\ At(m, {"send_thinking"}) # {} =>
             /\ Cardinality(OkAt(m, {"forward", "copy_to"})) = 1
             /\ \A i \in OkAt(m, {"forward", "copy_to"}), j \in At(m, {"send_thinking"}) :
                   log[m][j].thread = log[m][i].thread
       /\ At(m, {"generate_response"}) # {} => OkAt(m, {"send_thinking"}) # {}
       /\ At(m, {"reply"}) # {} => OkAt(m, {"forward", "copy_to"}) # {}
       /\ At(m, {"delete_reply"}) # {} => OkAt(m, {"reply"}) # {}
       /\ (msg[m].pc = "done" /\ msg[m].text /\ ~BannedAtStart(m)) =>
             /\ OkAt(m, {"send_thinking"}) # {}
             /\ At(m, {"generate_response"}) # {}
             /\ OkAt(m, OutcomeOps) # {}
             /\ OkAt(m, {"delete_reply"}) # {}
       /\ (msg[m].pc # "idle" /\ ~msg[m].text) =>
             /\ At(m, {"send_thinking", "generate_response"} \cup NoticeOps) = {}
             /\ ~group[m].posted

C17_Witness ==
    \E m \in Msgs :
       /\ msg[m].pc = "done" /\ msg[m].text /\ msg[m].retried
       /\ \E j \in OkAt(m, {"send_thinking"}) :
             /\ log[m][j].thread = msg[m].message_thread_id
             /\ log[m][j].thread # log[m][1].thread
       /\ OkAt(m, {"edit_suggestion"}) # {}

(***************************************************************************)
(* C18: with transport calls that succeed and a responder that returns or  *)
(* raises, a posted placeholder does not stay a thinking notice; the       *)
(* no-match and the error notice are eventually deleted; and a Pending     *)
(* suggestion is changed or removed by nothing but the handler of a staff  *)
(* press on it.                                                            *)
(***************************************************************************)
Unresolved(m) == NoticeThere(m) /\ group[m].text = ThinkingText
Discarding(m) == msg[m].pc \in {"edit_no_match", "edit_error"}
StaffActsOn(m) == \E c \in Calls : cb[c].message = m /\ cblog'[c] # cblog[c]

C18_PlaceholderResolved ==
    /\ \A m \in Msgs : Unresolved(m) ~> ~Unresolved(m)
    /\ \A m \in Msgs : Discarding(m) ~> group[m].deleted
    /\ \A m \in Msgs : [](HasOkCall(m, "edit_suggestion") => ~Discarding(m))
    /\ [][\A m \in Msgs : Pending(m) => (group'[m] = group[m] \/ StaffActsOn(m))]_vars

C18_Witness ==
    \E m, k \in Msgs :
       /\ HasOkCall(m, "edit_no_match") /\ group[m].deleted /\ msg[m].pc = "done"
       /\ Pending(k) /\ msg[k].pc = "done"

(***************************************************************************)
(* C19: a task waiting for the responder has delivered its content and     *)
(* posted its placeholder.  While the responder of message 1 never         *)
(* returns, that task stays where it is, the next message can be           *)
(* dispatched, every other task that has a next step can take it, and      *)
(* every other message task and every staff task runs to its end.          *)
(***************************************************************************)
Hanging(m) == msg[m].pc = "generate"
Running(m) == msg[m].pc \notin Finished \cup {"idle"}
NextToArrive(m) == msg[m].pc = "idle" /\ \A k \in Msgs : k < m => msg[k].pc # "idle"

C19_ResponderHangStallsOneTask ==
    /\ [](\A m \in Msgs : Hanging(m) =>
             /\ Relayed(m)
             /\ HasOkCall(m, "send_thinking")
             /\ \A k \in Msgs : NextToArrive(k) =>
                   \A u \in Users : ENABLED Dispatch(k, u, TRUE, FALSE)
             /\ \A k \in Msgs \ {m} : Running(k) => ENABLED MessageStep(k)
             /\ \A c \in Calls : (cb[c].pc # "idle" /\ ~CallFinished(c)) =>
                   ENABLED StaffStep(c))
    /\ [](Hanging(1) => [](Hanging(1)))
    /\ \A m \in Msgs \ {1} : Running(m) ~> msg[m].pc \in Finished
    /\ \A c \in Calls : (cb[c].pc # "idle") ~> CallFinished(c)

C19_Witness ==
    \E m, k \in Msgs, c \in Calls :
       /\ Hanging(m) /\ Relayed(m)
       /\ k # m /\ msg[k].pc = "done" /\ msg[k].user_data.id = msg[m].user_data.id
       /\ HasOkCall(k, "edit_suggestion")
       /\ cb[c].message = k /\ cb[c].pc = "done" /\ Approve(c) /\ AllOk(cblog[c])

(***************************************************************************)
(* C20: a message task posts at most one placeholder and renders at most   *)
(* one suggestion, and the tokens on a notice name the user and the        *)
(* message the notice was posted for: the notices that carry tokens with   *)
(* one (user id, message id) pair are at most one, so a message has at     *)
(* most one Pending suggestion.                                            *)
(***************************************************************************)
KeyboardPairs(kb) == {<<kb[i].user_id, kb[i].message_id>> : i \in DOMAIN kb}
Tokens(k) == {group[k].reply_markup[i] : i \in DOMAIN group[k].reply_markup}
TokenPairs(k) == KeyboardPairs(group[k].reply_markup)
PendingFor(u, m) == {k \in Msgs : Pending(k) /\ <<u, m>> \in TokenPairs(k)}

\* the tasks that have ever rendered a suggestion with tokens for (u, m)
EverRenderedFor(u, m) ==
    {k \in Msgs :
        /\ HasOkCall(k, "edit_suggestion")
        /\ <<u, m>> \in KeyboardPairs(get_chatgpt_approval_keyboard(msg[k].user_data.id, k))}

C20_OnePendingPerMessage ==
    /\ \A m \in Msgs :
          /\ Cardinality(At(m, {"send_thinking"})) <= 1
          /\ Cardinality(OkAt(m, {"edit_suggestion"})) <= 1
          /\ group[m].posted <=> HasOkCall(m, "send_thinking")
          /\ Tokens(m) # {} => HasOkCall(m, "edit_suggestion")
          /\ Pending(m) => TokenPairs(m) = {<<msg[m].user_data.id, m>>}
    /\ \A u \in Users, m \in Msgs :
          /\ Cardinality(PendingFor(u, m)) <= 1
          /\ Cardinality(EverRenderedFor(u, m)) <= 1

C20_Witness ==
    \E m, k \in Msgs :
       /\ m # k /\ Pending(m) /\ Pending(k)
       /\ msg[m].user_data.id = msg[k].user_data.id
       /\ PendingFor(msg[m].user_data.id, m) = {m}
       /\ PendingFor(msg[k].user_data.id, k) = {k}

(***************************************************************************)
(* C21: for any one suggestion, under every interleaving of the staff      *)
(* presses on it, the suggestion text is delivered to the user at most     *)
(* once, and it is not delivered at all once a reject has deleted the      *)
(* rendered message.                                                       *)
(***************************************************************************)
\* the approve calls on the suggestion of message m whose send_message succeeded
DeliveredBy(m) ==
    {c \in Calls : /\ cb[c].message = m
                   /\ \E i \in DOMAIN cblog[c] :
                         /\ cblog[c][i].op = "send_message"
                         /\ cblog[c][i].res = "ok"}

\* a reject call has deleted the rendered suggestion of message m
RejectedAway(m) ==
    \E c \in Calls : /\ cb[c].message = m
                     /\ Reject(c)
                     /\ \E i \in DOMAIN cblog[c] :
                           /\ cblog[c][i].op = "delete"
                           /\ cblog[c][i].res = "ok"

\* this step delivers the suggestion of message m to the user
DeliversNow(m) ==
    \E c \in Calls : /\ cb[c].message = m
                     /\ cb[c].pc = "send"
                     /\ cb'[c].pc = "edit_sent"
                     /\ inbox' # inbox

DeliveredOnce == \A m \in Msgs : Cardinality(DeliveredBy(m)) <= 1

NoDeliveryAfterReject == \A m \in Msgs : RejectedAway(m) => ~DeliversNow(m)

C21_AtMostOneDelivery == []DeliveredOnce /\ [][NoDeliveryAfterReject]_vars


(***************************************************************************)
(* C22: no step of the message handler changes the banned flag or the      *)
(* display name of a stored record: the directory write of the stale       *)
(* thread recovery changes the thread id only, so a ban set by the         *)
(* moderation path while the relay is in flight is still stored when the   *)
(* relay has completed.                                                    *)
(***************************************************************************)
\* this step is taken by the message handler
HandlerStep == msg' # msg

\* the step leaves the banned flag and the display name of every record alone
KeepsBanAndName ==
    \A u \in Users : /\ store'[u].is_banned = store[u].is_banned
                     /\ store'[u].full_name = store[u].full_name

C22_HandlerKeepsBanAndName == [][HandlerStep => KeepsBanAndName]_vars


=============================================================================
